---- MODULE Spec2Model ----
(***************************************************************************)
(* Content-region detection and filtering pipeline of                      *)
(* SmartCrawlerCoordinator (src/Crawler/smart-crawler-coordinator.js):     *)
(* detectAndFilterMainContent = detectContentRegions, checkLinkPatterns,   *)
(* extractMainContentBlocks, with shouldIncludeBlock, countWords and       *)
(* checkOnlyLinkPatterns.                                                  *)
(*                                                                         *)
(* A string is a sequence of characters; "a" stands for any character that *)
(* is not whitespace and " " for any whitespace character.  An absent      *)
(* field and the empty string are both <<>> (the code only tests fields    *)
(* for truthiness).  Indices of blocks are the source's, starting at 0.    *)
(***************************************************************************)
EXTENDS Integers, Sequences, FiniteSets, TLC

Min(a, b) == IF a <= b THEN a ELSE b

\* ------------------------------------------------------------- strings ----

IsSpace(c) == c = " "

Truthy(s) == s # <<>>

RECURSIVE trimStart(_)
trimStart(s) ==
  IF s # <<>> /\ IsSpace(Head(s)) THEN trimStart(Tail(s)) ELSE s

RECURSIVE trimEnd(_)
trimEnd(s) ==
  IF s # <<>> /\ IsSpace(s[Len(s)]) THEN trimEnd(SubSeq(s, 1, Len(s) - 1)) ELSE s

\* String.prototype.trim
trim(s) == trimEnd(trimStart(s))

\* s.split(/\s+/): the pieces between maximal runs of whitespace
\* (cur is the piece being read, inSep tells that the previous character
\* was whitespace)
RECURSIVE splitWhitespace(_, _, _)
splitWhitespace(s, cur, inSep) ==
  IF s = <<>> THEN <<cur>>
  ELSE IF IsSpace(Head(s))
       THEN IF inSep THEN splitWhitespace(Tail(s), cur, TRUE)
            ELSE <<cur>> \o splitWhitespace(Tail(s), <<>>, TRUE)
       ELSE splitWhitespace(Tail(s), Append(cur, Head(s)), FALSE)

countWords(text) ==
  IF ~Truthy(text) THEN 0
  ELSE LET trimmed == trim(text)
       IN IF trimmed = <<>> THEN 0
          ELSE LET words == SelectSeq(splitWhitespace(trimmed, <<>>, FALSE),
                                      LAMBDA word : Len(word) > 0)
               IN Len(words)

\* n one-letter words joined by single spaces
RECURSIVE Words(_)
Words(n) == IF n = 0 THEN <<>>
            ELSE IF n = 1 THEN <<"a">>
            ELSE Words(n - 1) \o <<" ", "a">>

\* ----------------------------------------------------------- fragments ----

\* a block of the simple-blocks list: title, content, image, link
Block(t, c, im, l) == [title |-> t, content |-> c, image |-> im, link |-> l]

Kinds == {"empty", "link", "img", "t1", "t5", "t5l", "c4", "c4l", "c4lws", "c4i",
          "c5l", "c14", "c15", "c19", "c20", "tws19"}

\* the fragments the sequences are built from, by name
Fragment == [k \in Kinds |->
  CASE k = "empty" -> Block(<<>>, <<>>, <<>>, <<>>)
    [] k = "link"  -> Block(<<>>, <<>>, <<>>, <<"a">>)
    [] k = "img"   -> Block(<<>>, <<>>, <<"a">>, <<>>)
    [] k = "t1"    -> Block(Words(1), <<>>, <<>>, <<>>)
    [] k = "t5"    -> Block(Words(5), <<>>, <<>>, <<>>)
    [] k = "t5l"   -> Block(Words(5), <<>>, <<>>, <<"a">>)
    [] k = "c4"    -> Block(<<>>, Words(4), <<>>, <<>>)
    [] k = "c4l"   -> Block(<<>>, Words(4), <<>>, <<"a">>)
    [] k = "c4lws" -> Block(<<>>, Words(4), <<>>, <<" ">>)
    [] k = "c4i"   -> Block(<<>>, Words(4), <<"a">>, <<>>)
    [] k = "c5l"   -> Block(<<>>, Words(5), <<>>, <<"a">>)
    [] k = "c14"   -> Block(<<>>, Words(14), <<>>, <<>>)
    [] k = "c15"   -> Block(<<>>, <<" ">> \o Words(15) \o <<" ">>, <<>>, <<>>)
    [] k = "c19"   -> Block(<<>>, Words(10) \o <<" ", " ">> \o Words(9), <<>>, <<>>)
    [] k = "c20"   -> Block(<<>>, Words(20), <<>>, <<>>)
    [] k = "tws19" -> Block(<<" ">>, Words(19), <<>>, <<>>)]

\* !!(block.title && block.title.trim())
hasTitle(block) == Truthy(block.title) /\ Truthy(trim(block.title))

\* !!(block.content && block.content.trim())
hasContent(block) == Truthy(block.content) /\ Truthy(trim(block.content))

\* !!(block.link && block.link.trim())
hasLink(block) == Truthy(block.link) /\ Truthy(trim(block.link))

\* isValidContentStart that looks at the content alone
isValidContentStartContentOnly(block) ==
  LET contentWordCount == IF hasContent(block) THEN countWords(block.content) ELSE 0
  IN hasContent(block) /\ contentWordCount >= 15

\* hasTitle || (hasContent && contentWordCount >= 15)
isValidContentStart(block) ==
  LET contentWordCount == IF hasContent(block) THEN countWords(block.content) ELSE 0
  IN hasTitle(block) \/ (hasContent(block) /\ contentWordCount >= 15)

\* (hasValidContent && contentWordCount >= 5) || (hasValidTitle && titleWordCount >= 5)
isValidContentForPattern(block) ==
  LET contentWordCount == IF hasContent(block) THEN countWords(block.content) ELSE 0
      titleWordCount == IF hasTitle(block) THEN countWords(block.title) ELSE 0
  IN (hasContent(block) /\ contentWordCount >= 5)
     \/ (hasTitle(block) /\ titleWordCount >= 5)

\* shouldIncludeBlock with the bound on the words excluded
shouldIncludeBlockOver20(block) ==
  IF Truthy(block.title) /\ Truthy(trim(block.title)) THEN TRUE
  ELSE IF Truthy(block.image) /\ Truthy(trim(block.image)) THEN TRUE
  ELSE IF Truthy(block.content) /\ Truthy(trim(block.content))
       THEN LET wordCount == countWords(block.content)
            IN IF wordCount > 20 THEN TRUE ELSE FALSE
  ELSE FALSE

\* shouldIncludeBlock keeping the blocks that are only a link
shouldIncludeBlockOrLink(block) ==
  IF Truthy(block.title) /\ Truthy(trim(block.title)) THEN TRUE
  ELSE IF Truthy(block.image) /\ Truthy(trim(block.image)) THEN TRUE
  ELSE IF Truthy(block.content) /\ Truthy(trim(block.content))
       THEN LET wordCount == countWords(block.content)
            IN IF wordCount >= 20 THEN TRUE ELSE FALSE
  ELSE IF /\ Truthy(block.link) /\ Truthy(trim(block.link))
          /\ ~Truthy(block.content) /\ ~Truthy(block.title) /\ ~Truthy(block.image)
       THEN TRUE
  ELSE FALSE

shouldIncludeBlock(block) ==
  IF Truthy(block.title) /\ Truthy(trim(block.title)) THEN TRUE
  ELSE IF Truthy(block.image) /\ Truthy(trim(block.image)) THEN TRUE
  ELSE IF Truthy(block.content) /\ Truthy(trim(block.content))
       THEN LET wordCount == countWords(block.content)
            IN IF wordCount >= 20 THEN TRUE ELSE FALSE
  ELSE IF /\ Truthy(block.link) /\ Truthy(trim(block.link))
          /\ ~Truthy(block.content) /\ ~Truthy(block.title) /\ ~Truthy(block.image)
       THEN FALSE
  ELSE FALSE

\* the block predicates of every fragment, computed once
ValidContentStart == [k \in Kinds |-> isValidContentStart(Fragment[k])]
ValidContentForPattern == [k \in Kinds |-> isValidContentForPattern(Fragment[k])]
HasLink == [k \in Kinds |-> hasLink(Fragment[k])]
HasTitle == [k \in Kinds |-> hasTitle(Fragment[k])]
IncludeBlock == [k \in Kinds |-> shouldIncludeBlock(Fragment[k])]
\* block.content ? this.countWords(block.content) : 0
ContentWordCount == [k \in Kinds |->
  IF Truthy(Fragment[k].content) THEN countWords(Fragment[k].content) ELSE 0]

\* -------------------------------------------------------------- inputs ----

\* the lengths of the sequences: every length up to ShortLen, and the two
\* lengths MaxLen - 1 and MaxLen
ShortLen == 12
MaxLen == 33

Lens == (0 .. ShortLen) \cup (MaxLen - 1 .. MaxLen)

\* <<base, first mark, second mark>>: a sequence is the base fragment
\* repeated, with at most two positions holding a mark instead
Scenarios == {
  <<"c14", "t1", "t1">>,
  <<"empty", "c15", "t1">>,
  <<"t5l", "empty", "empty">>,
  <<"t5l", "t5", "c4">>,
  <<"c5l", "t1", "t1">>,
  <<"c4i", "c4l", "c4l">>,
  <<"c4", "c4l", "c4lws">>,
  <<"img", "t1", "c4l">>,
  <<"c19", "c20", "tws19">>,
  <<"c4l", "t1", "c20">>,
  <<"link", "img", "empty">>,
  <<"link", "empty", "empty">>,
  <<"empty", "link", "link">>,
  <<"t5", "link", "link">>}

MarkSets(len) ==
  {{}} \cup {{p} : p \in 0 .. len - 1} \cup {{p, q} : p, q \in 0 .. len - 1}

Paint(len, sc, S) ==
  [j \in 1 .. len |->
     IF j - 1 \in S
     THEN IF \A q \in S : j - 1 <= q THEN sc[2] ELSE sc[3]
     ELSE sc[1]]

Inputs == UNION {{Paint(len, sc, S) : sc \in Scenarios, S \in MarkSets(len)} :
                 len \in Lens}

\* --------------------------------------------------------------- state ----

VARIABLES
  pc,                \* where the call of detectAndFilterMainContent stands
  blocks,            \* the fragment sequence (names of fragments)
  i,                 \* loop index of detectContentRegions / checkLinkPatterns
  hasFoundValidContentInFirst10Blocks,
  isFirstContentRegion,
  currentRegion,
  regions,           \* result of detectContentRegions
  r,                 \* position in contentRegions of the region being pruned
  contentLinkPairs,
  consecutivePairs,
  finalRegions,      \* result of checkLinkPatterns
  mainContentBlocks, \* result of detectAndFilterMainContent
  run,               \* number of the call of detectAndFilterMainContent
  firstResult,       \* what the first call returned
  candidate,         \* a block handed to shouldIncludeBlock alone
  included,          \* what shouldIncludeBlock returned for it
  urls,              \* the locators handed to crawlUrls
  options,           \* the options handed to crawlUrls
  item,              \* i of crawlUrls: the position of the locator being crawled
  attempt,           \* attempt of NonBrowserCrawler.crawlUrl
  trace,             \* what the running call of NonBrowserCrawler.crawlUrl did so far
  crawlResult,       \* what NonBrowserCrawler.crawlUrl returned to the coordinator
  outcome,           \* how the last call of SmartCrawlerCoordinator.crawlUrl ended
  results,           \* results of crawlUrls
  log,               \* what crawlUrls did so far
  batch,             \* what crawlUrls returned
  error,             \* the message of the error handed to shouldFallbackToBrowser
  fallback,          \* what shouldFallbackToBrowser returned
  files,             \* the files of the output directory: name and content
  now,               \* Date.now()
  job,               \* for each caller, its running call of extractSimpleText
  calls,             \* the number of calls of extractSimpleText so far
  last,              \* what the last step of a call of extractSimpleText did
  stored             \* the artifacts written so far, in the order of writing

vars == <<pc, blocks, i, hasFoundValidContentInFirst10Blocks, isFirstContentRegion,
          currentRegion, regions, r, contentLinkPairs, consecutivePairs,
          finalRegions, mainContentBlocks, run, firstResult, candidate, included,
          urls, options, item, attempt, trace, crawlResult, outcome, results, log,
          batch, error, fallback, files, now, job, calls, last, stored>>

scanVars == <<hasFoundValidContentInFirst10Blocks, isFirstContentRegion,
              currentRegion, regions>>
pruneVars == <<r, contentLinkPairs, consecutivePairs, finalRegions>>
callVars == <<run, firstResult>>
filterVars == <<candidate, included>>
batchVars == <<urls, options, item, attempt, trace, crawlResult, outcome, results,
               log, batch>>
classifyVars == <<error, fallback>>
fetchVars == <<batchVars, classifyVars>>
cacheVars == <<files, now, job, calls, last, stored>>

null == [start |-> -1]

length == Len(blocks)

\* blocks[k] of the source
at(k) == blocks[k + 1]

requiredConsecutive == 15

Idle ==
  /\ i = 0
  /\ hasFoundValidContentInFirst10Blocks = FALSE
  /\ isFirstContentRegion = TRUE
  /\ currentRegion = null
  /\ regions = <<>>
  /\ r = 0
  /\ contentLinkPairs = 0
  /\ consecutivePairs = 0
  /\ finalRegions = <<>>
  /\ mainContentBlocks = <<>>
  /\ run = 1
  /\ firstResult = <<>>

\* nothing is being crawled
NoBatch ==
  /\ urls = <<>>
  /\ options = [delay |-> <<>>]
  /\ item = 0
  /\ attempt = 0
  /\ trace = <<>>
  /\ crawlResult = [method |-> "none"]
  /\ outcome = [kind |-> "none"]
  /\ results = <<>>
  /\ log = <<>>
  /\ batch = [success |-> FALSE]

\* the first value of Date.now()
FirstTime == 10

\* no call of extractSimpleText yet, and an empty output directory
NoCache ==
  /\ files = {}
  /\ now = FirstTime
  /\ job = <<>>
  /\ calls = 0
  /\ last = [op |-> "none"]
  /\ stored = <<>>

\* no error is being classified
NoError ==
  /\ error = <<>>
  /\ fallback = "none"

Init ==
  /\ blocks \in Inputs
  /\ pc = "start"
  /\ candidate = Block(<<>>, <<>>, <<>>, <<>>)
  /\ included = FALSE
  /\ Idle
  /\ NoBatch
  /\ NoError
  /\ NoCache

\* ------------------------------------------------ detectContentRegions ----

\* Begin with isFirstContentRegion kept from the call before
BeginStale ==
  /\ pc = "start"
  /\ IF length = 0
     THEN /\ pc' = "done"
          /\ mainContentBlocks' = <<>>
          /\ UNCHANGED <<i, scanVars, pruneVars>>
     ELSE /\ pc' = "detect"
          /\ regions' = <<>>
          /\ currentRegion' = null
          /\ hasFoundValidContentInFirst10Blocks' =
               \E k \in 0 .. Min(10, length) - 1 : ValidContentStart[at(k)]
          /\ isFirstContentRegion' = isFirstContentRegion
          /\ i' = 0
          /\ UNCHANGED <<pruneVars, mainContentBlocks>>
  /\ UNCHANGED <<blocks, callVars, filterVars, fetchVars, cacheVars>>

\* detectAndFilterMainContent's entry and the first pass of
\* detectContentRegions over the first 10 blocks
Begin ==
  /\ pc = "start"
  /\ IF length = 0
     THEN /\ pc' = "done"
          /\ mainContentBlocks' = <<>>
          /\ UNCHANGED <<i, scanVars, pruneVars>>
     ELSE /\ pc' = "detect"
          /\ regions' = <<>>
          /\ currentRegion' = null
          /\ hasFoundValidContentInFirst10Blocks' =
               \E k \in 0 .. Min(10, length) - 1 : ValidContentStart[at(k)]
          /\ isFirstContentRegion' = TRUE
          /\ i' = 0
          /\ UNCHANGED <<pruneVars, mainContentBlocks>>
  /\ UNCHANGED <<blocks, callVars, filterVars, fetchVars, cacheVars>>

\* StartRegion with the extended range for every region, not only the first
StartRegionExtendedAgain(k) ==
  LET extendRange == IF ~hasFoundValidContentInFirst10Blocks THEN 20 ELSE 10
  IN [start |-> k,
      end |-> Min(k + extendRange - 1, length - 1),
      reason |-> IF HasTitle[at(k)] THEN "title_start" ELSE "content_start",
      isFirstRegion |-> isFirstContentRegion,
      extendRange |-> extendRange,
      lastValidContentIndex |-> k]

\* StartRegion with the end not clipped to the last block
StartRegionUnclipped(k) ==
  LET extendRange == IF isFirstContentRegion /\ ~hasFoundValidContentInFirst10Blocks
                     THEN 20 ELSE 10
  IN [start |-> k,
      end |-> k + extendRange - 1,
      reason |-> IF HasTitle[at(k)] THEN "title_start" ELSE "content_start",
      isFirstRegion |-> isFirstContentRegion,
      extendRange |-> extendRange,
      lastValidContentIndex |-> k]

\* StartRegion with the region starting one block later
StartRegionAtNext(k) ==
  LET extendRange == IF isFirstContentRegion /\ ~hasFoundValidContentInFirst10Blocks
                     THEN 20 ELSE 10
  IN [start |-> k + 1,
      end |-> Min(k + extendRange, length - 1),
      reason |-> IF HasTitle[at(k)] THEN "title_start" ELSE "content_start",
      isFirstRegion |-> isFirstContentRegion,
      extendRange |-> extendRange,
      lastValidContentIndex |-> k]

\* the region opened at block k
StartRegion(k) ==
  LET extendRange == IF isFirstContentRegion /\ ~hasFoundValidContentInFirst10Blocks
                     THEN 20 ELSE 10
  IN [start |-> k,
      end |-> Min(k + extendRange - 1, length - 1),
      reason |-> IF HasTitle[at(k)] THEN "title_start" ELSE "content_start",
      isFirstRegion |-> isFirstContentRegion,
      extendRange |-> extendRange,
      lastValidContentIndex |-> k]

\* ExtendRegion that goes back to the window of 10
ExtendRegionStandardWindow(region, k) ==
  LET newEnd == Min(k + 10 - 1, length - 1)
  IN [region EXCEPT !.end = newEnd, !.extendRange = 10, !.lastValidContentIndex = k]

\* ExtendRegion that leaves the end where it is
ExtendRegionKeepEnd(region, k) == [region EXCEPT !.lastValidContentIndex = k]

\* valid content at block k within the open region
ExtendRegion(region, k) ==
  LET newEnd == Min(k + region.extendRange - 1, length - 1)
  IN IF newEnd > region.end
     THEN [region EXCEPT !.end = newEnd, !.lastValidContentIndex = k]
     ELSE [region EXCEPT !.lastValidContentIndex = k]

\* NextValidContentIndex looking 9 blocks ahead
NextValidContentIndexIn9(region) ==
  LET base == region.lastValidContentIndex
      lookAheadEnd == Min(base + 9, length - 1)
      found == {j \in base + 1 .. lookAheadEnd : ValidContentStart[at(j)]}
  IN IF found = {} THEN -1 ELSE CHOOSE j \in found : \A k \in found : j <= k

\* NextValidContentIndex looking 11 blocks ahead
NextValidContentIndexIn11(region) ==
  LET base == region.lastValidContentIndex
      lookAheadEnd == Min(base + 11, length - 1)
      found == {j \in base + 1 .. lookAheadEnd : ValidContentStart[at(j)]}
  IN IF found = {} THEN -1 ELSE CHOOSE j \in found : \A k \in found : j <= k

\* a block that does not exist is read: reading its title, content or link
\* raises a TypeError, which nothing in detectAndFilterMainContent catches
Threw ==
  /\ pc' = "threw"
  /\ UNCHANGED <<i, currentRegion, regions, isFirstContentRegion, pruneVars>>

\* k is an index of blocks
InRange(k) == 0 <= k /\ k <= length - 1

\* lookAheadEnd without the bound of the last block
lookAheadEndUnclipped(region) == region.lastValidContentIndex + 10

\* the last block of the look-ahead
lookAheadEnd(region) == Min(region.lastValidContentIndex + 10, length - 1)

\* the blocks the look-ahead loop reads: it stops at the first valid content
\* (and at a block that does not exist, whose title it cannot read)
lookAheadReads(region) ==
  {j \in region.lastValidContentIndex + 1 .. lookAheadEnd(region) :
     \A k \in region.lastValidContentIndex + 1 .. j - 1 :
       InRange(k) /\ ~ValidContentStart[at(k)]}

\* the first valid content in the 10 blocks after the last valid one, or -1
NextValidContentIndex(region) ==
  LET found == {j \in lookAheadReads(region) : ValidContentStart[at(j)]}
  IN IF found = {} THEN -1 ELSE CHOOSE j \in found : \A k \in found : j <= k

\* the open region after the first half of the loop body for block i
Scanned ==
  IF ~ValidContentStart[at(i)] THEN currentRegion
  ELSE IF currentRegion = null THEN StartRegion(i)
  ELSE ExtendRegion(currentRegion, i)

\* the blocks the loop body reads for block i
DetectReads ==
  {i} \cup (IF Scanned # null /\ i >= Scanned.end THEN lookAheadReads(Scanned) ELSE {})

\* one iteration of the main loop of detectContentRegions
DetectStep ==
  /\ pc = "detect"
  /\ i < length
  /\ IF \A k \in DetectReads : InRange(k)
     THEN LET isValidContentStart_i == ValidContentStart[at(i)]
              scanned == Scanned
              nextValidContentIndex == NextValidContentIndex(scanned)
          IN /\ isFirstContentRegion' =
                  IF isValidContentStart_i /\ currentRegion = null THEN FALSE
                  ELSE isFirstContentRegion
             /\ IF scanned # null /\ i >= scanned.end
                THEN IF nextValidContentIndex # -1
                     THEN /\ currentRegion' =
                               [scanned EXCEPT
                                  !.end = Min(nextValidContentIndex + scanned.extendRange - 1,
                                              length - 1),
                                  !.lastValidContentIndex = nextValidContentIndex]
                          /\ regions' = regions
                     ELSE /\ regions' = Append(regions, scanned)
                          /\ currentRegion' = null
                ELSE /\ currentRegion' = scanned
                     /\ regions' = regions
             /\ i' = i + 1
             /\ pc' = pc
     ELSE Threw
  /\ UNCHANGED <<blocks, hasFoundValidContentInFirst10Blocks, pruneVars,
                 mainContentBlocks, callVars, filterVars, fetchVars, cacheVars>>

\* the end of detectContentRegions (the region still open is added) and the
\* entry of checkLinkPatterns
DetectFinish ==
  /\ pc = "detect"
  /\ i = length
  /\ regions' = IF currentRegion # null THEN Append(regions, currentRegion) ELSE regions
  /\ currentRegion' = currentRegion
  /\ IF Len(regions') = 0
     THEN /\ finalRegions' = regions'
          /\ pc' = "extract"
          /\ UNCHANGED <<i, r, contentLinkPairs, consecutivePairs>>
     ELSE /\ finalRegions' = <<>>
          /\ pc' = "prune"
          /\ r' = 1
          /\ i' = regions'[1].start
          /\ contentLinkPairs' = 0
          /\ consecutivePairs' = 0
  /\ UNCHANGED <<blocks, hasFoundValidContentInFirst10Blocks, isFirstContentRegion,
                 mainContentBlocks, callVars, filterVars, fetchVars, cacheVars>>

\* --------------------------------------------------- checkLinkPatterns ----

\* foundAssociatedLink without the look at the next 3 blocks
foundOwnLink(k) == HasLink[at(k)]

\* linkReads looking at the next 2 blocks
linkReadsNext2(k) ==
  {j \in k + 1 .. Min(k + 2, length - 1) :
     \A m \in k + 1 .. j - 1 : InRange(m) /\ ~HasLink[at(m)]}

\* the blocks after block k that the search for a link reads: it stops at
\* the first link
linkReads(k) ==
  {j \in k + 1 .. Min(k + 3, length - 1) :
     \A m \in k + 1 .. j - 1 : InRange(m) /\ ~HasLink[at(m)]}

\* the block itself has a link, or one of the next 3 blocks has
foundAssociatedLink(k) ==
  \/ HasLink[at(k)]
  \/ \E j \in linkReads(k) : HasLink[at(j)]

\* the blocks the loop body of checkLinkPatterns reads for block i
PruneReads ==
  {i} \cup (IF InRange(i) /\ ValidContentForPattern[at(i)] /\ ~HasLink[at(i)]
            THEN linkReads(i) ELSE {})

\* PushFinal that also leaves out a region cut down to its first block
PushFinalAboveStart(final, region, adjustedEnd, pairs, consecutive) ==
  IF adjustedEnd > region.start
  THEN Append(final, [start |-> region.start,
                      end |-> adjustedEnd,
                      reason |-> region.reason,
                      isFirstRegion |-> region.isFirstRegion,
                      linkPatternDetected |-> consecutive >= requiredConsecutive,
                      contentLinkPairs |-> pairs])
  ELSE final

\* the region pushed to finalRegions, if its bounds are valid
PushFinal(final, region, adjustedEnd, pairs, consecutive) ==
  IF adjustedEnd >= region.start
  THEN Append(final, [start |-> region.start,
                      end |-> adjustedEnd,
                      reason |-> region.reason,
                      isFirstRegion |-> region.isFirstRegion,
                      linkPatternDetected |-> consecutive >= requiredConsecutive,
                      contentLinkPairs |-> pairs])
  ELSE final

\* one iteration of the loop over the blocks of region r and, when that loop
\* ends, the end of the iteration of the loop over the regions
PruneStep ==
  /\ pc = "prune"
  /\ IF \A k \in PruneReads : InRange(k)
     THEN LET region == regions[r]
              pair == ValidContentForPattern[at(i)] /\ foundAssociatedLink(i)
              pairs == IF pair THEN contentLinkPairs + 1 ELSE contentLinkPairs
              consecutive == IF pair THEN consecutivePairs + 1 ELSE 0
              detected == ValidContentForPattern[at(i)] /\ consecutive >= requiredConsecutive
              adjustedEnd == IF detected THEN i - (requiredConsecutive - 1) ELSE region.end
          IN /\ IF detected \/ i >= region.end
                THEN /\ finalRegions' = PushFinal(finalRegions, region, adjustedEnd, pairs, consecutive)
                     /\ contentLinkPairs' = 0
                     /\ consecutivePairs' = 0
                     /\ IF r < Len(regions)
                        THEN /\ r' = r + 1
                             /\ i' = regions[r + 1].start
                             /\ pc' = "prune"
                        ELSE /\ r' = r
                             /\ i' = i
                             /\ pc' = "extract"
                ELSE /\ contentLinkPairs' = pairs
                     /\ consecutivePairs' = consecutive
                     /\ i' = i + 1
                     /\ UNCHANGED <<pc, r, finalRegions>>
             /\ UNCHANGED <<currentRegion, regions, isFirstContentRegion>>
     ELSE Threw
  /\ UNCHANGED <<blocks, hasFoundValidContentInFirst10Blocks, mainContentBlocks,
                 callVars, filterVars, fetchVars, cacheVars>>

\* --------------------------------------------- extractMainContentBlocks ----

\* !!(block.link)
HasRawLink == [k \in Kinds |-> Truthy(Fragment[k].link)]

\* hasValidContent || hasValidTitle
HasContentOrTitle == [k \in Kinds |-> hasContent(Fragment[k]) \/ hasTitle(Fragment[k])]

\* the loop of checkOnlyLinkPatterns from block k on:
\* <<linkPatternCount, contentBlockCount>>
RECURSIVE CountLinkPatterns(_, _, _)
CountLinkPatterns(k, linkPatternCount, contentBlockCount) ==
  IF k >= length THEN <<linkPatternCount, contentBlockCount>>
  ELSE IF HasContentOrTitle[at(k)]
       THEN IF \/ HasRawLink[at(k)]
               \/ \E j \in k + 1 .. Min(k + 3, length - 1) : HasRawLink[at(j)]
            THEN CountLinkPatterns(k + 1, linkPatternCount + 1, contentBlockCount + 1)
            ELSE CountLinkPatterns(k + 1, linkPatternCount, contentBlockCount + 1)
       ELSE CountLinkPatterns(k + 1, linkPatternCount, contentBlockCount)

\* checkOnlyLinkPatterns with the ratio 0.7 included
checkOnlyLinkPatternsFrom70 ==
  LET counts == CountLinkPatterns(0, 0, 0)
      linkPatternCount == counts[1]
      contentBlockCount == counts[2]
  IN contentBlockCount > 0 /\ 10 * linkPatternCount >= 7 * contentBlockCount

\* linkPatternCount / contentBlockCount > 0.7: the quotient of two small
\* integers is the double nearest to the exact ratio, and so is the literal
\* 0.7, so the comparison is the exact one
checkOnlyLinkPatterns ==
  LET counts == CountLinkPatterns(0, 0, 0)
      linkPatternCount == counts[1]
      contentBlockCount == counts[2]
  IN contentBlockCount > 0 /\ 10 * linkPatternCount > 7 * contentBlockCount

\* blocks.filter(block => this.shouldIncludeBlock(block)) from block k on
RECURSIVE FilterBlocks(_)
FilterBlocks(k) ==
  IF k >= length THEN <<>>
  ELSE IF IncludeBlock[at(k)] THEN <<at(k)>> \o FilterBlocks(k + 1)
  ELSE FilterBlocks(k + 1)

NoRegionFilter ==
  LET filtered == FilterBlocks(0)
  IN [index \in 1 .. Len(filtered) |->
        [block |-> filtered[index],
         meta |-> [regionReason |-> "no_region_filter",
                   blockIndex |-> index - 1,
                   isMainContent |-> TRUE,
                   contentWordCount |-> ContentWordCount[filtered[index]]]]]

\* RegionBlocks without the last block of the region
RECURSIVE RegionBlocksBeforeEnd(_, _)
RegionBlocksBeforeEnd(region, k) ==
  IF k >= region.end THEN <<>>
  ELSE IF k < length /\ IncludeBlock[at(k)]
       THEN <<[block |-> at(k),
               meta |-> [regionReason |-> region.reason,
                         blockIndex |-> k,
                         isMainContent |-> TRUE,
                         isFirstRegion |-> region.isFirstRegion,
                         contentWordCount |-> ContentWordCount[at(k)]]]>>
            \o RegionBlocksBeforeEnd(region, k + 1)
       ELSE RegionBlocksBeforeEnd(region, k + 1)

\* the inner loop of extractMainContentBlocks over region, from block k on
RECURSIVE RegionBlocks(_, _)
RegionBlocks(region, k) ==
  IF k > region.end THEN <<>>
  ELSE IF k < length /\ IncludeBlock[at(k)]
       THEN <<[block |-> at(k),
               meta |-> [regionReason |-> region.reason,
                         blockIndex |-> k,
                         isMainContent |-> TRUE,
                         isFirstRegion |-> region.isFirstRegion,
                         contentWordCount |-> ContentWordCount[at(k)]]]>>
            \o RegionBlocks(region, k + 1)
       ELSE RegionBlocks(region, k + 1)

\* the outer loop of extractMainContentBlocks, from region n on
RECURSIVE RegionsBlocks(_, _)
RegionsBlocks(rs, n) ==
  IF n > Len(rs) THEN <<>>
  ELSE RegionBlocks(rs[n], rs[n].start) \o RegionsBlocks(rs, n + 1)

extractMainContentBlocks(rs) ==
  IF Len(rs) = 0
  THEN IF checkOnlyLinkPatterns THEN <<>> ELSE NoRegionFilter
  ELSE RegionsBlocks(rs, 1)

Extract ==
  /\ pc = "extract"
  /\ mainContentBlocks' = extractMainContentBlocks(finalRegions)
  /\ pc' = "done"
  /\ UNCHANGED <<blocks, i, scanVars, pruneVars, callVars, filterVars, fetchVars, cacheVars>>

Next == Begin \/ DetectStep \/ DetectFinish \/ PruneStep \/ Extract

Spec == Init /\ [][Next]_vars

\* ------------------------------------------------- a second call, alone ----

\* detectAndFilterMainContent is called again on the same blocks; the
\* variables still hold what the first call left in them
Again ==
  /\ pc = "done"
  /\ run = 1
  /\ run' = 2
  /\ firstResult' = mainContentBlocks
  /\ pc' = "start"
  /\ UNCHANGED <<blocks, i, scanVars, pruneVars, mainContentBlocks, filterVars, fetchVars, cacheVars>>

NextTwice == Begin \/ DetectStep \/ DetectFinish \/ PruneStep \/ Extract \/ Again

SpecTwice == Init /\ [][NextTwice]_vars

\* ------------------------------------------- shouldIncludeBlock, alone ----

Titles == {<<>>, <<" ">>, Words(1), <<" ">> \o Words(2)}
Contents == {<<>>, <<" ", " ">>, Words(1), Words(19),
             <<" ">> \o Words(10) \o <<" ", " ">> \o Words(9) \o <<" ">>,
             Words(20), Words(7) \o <<" ", " ", " ">> \o Words(13), Words(21)}
Images == {<<>>, <<" ">>, <<"a">>}
Links == {<<>>, <<" ">>, <<"a">>}

InitFilter ==
  /\ candidate \in {Block(t, c, im, l) : t \in Titles, c \in Contents,
                                          im \in Images, l \in Links}
  /\ included = FALSE
  /\ pc = "filter"
  /\ blocks = <<>>
  /\ Idle
  /\ NoBatch
  /\ NoError
  /\ NoCache

FilterBlock ==
  /\ pc = "filter"
  /\ included' = shouldIncludeBlock(candidate)
  /\ pc' = "filtered"
  /\ UNCHANGED <<blocks, i, scanVars, pruneVars, mainContentBlocks, callVars, candidate, fetchVars, cacheVars>>

NextFilter == FilterBlock

SpecFilter == InitFilter /\ [][NextFilter]_vars

\* ------------------------------------------- shouldFallbackToBrowser ----
\* A message is the sequence of its characters.

UpperCase == <<"A", "B", "C", "D", "E", "F", "G", "H", "I", "J", "K", "L", "M",
               "N", "O", "P", "Q", "R", "S", "T", "U", "V", "W", "X", "Y", "Z">>

LowerCase == <<"a", "b", "c", "d", "e", "f", "g", "h", "i", "j", "k", "l", "m",
               "n", "o", "p", "q", "r", "s", "t", "u", "v", "w", "x", "y", "z">>

\* String.prototype.toLowerCase
toLowerCase(s) ==
  [n \in 1 .. Len(s) |->
     IF \E k \in DOMAIN UpperCase : UpperCase[k] = s[n]
     THEN LowerCase[CHOOSE k \in DOMAIN UpperCase : UpperCase[k] = s[n]]
     ELSE s[n]]

\* String.prototype.includes
includes(s, sub) ==
  \E k \in 0 .. Len(s) - Len(sub) : SubSeq(s, k + 1, k + Len(sub)) = sub

\* the strings shouldFallbackToBrowser looks for
timeout == <<"t", "i", "m", "e", "o", "u", "t">>
empty == <<"e", "m", "p", "t", "y">>
noContent == <<"n", "o", " ", "c", "o", "n", "t", "e", "n", "t">>
javascript == <<"j", "a", "v", "a", "s", "c", "r", "i", "p", "t">>
enotfound == <<"e", "n", "o", "t", "f", "o", "u", "n", "d">>
econnrefused == <<"e", "c", "o", "n", "n", "r", "e", "f", "u", "s", "e", "d">>
certificate == <<"c", "e", "r", "t", "i", "f", "i", "c", "a", "t", "e">>
code403 == <<"4", "0", "3">>
code503 == <<"5", "0", "3">>
cloudflare == <<"c", "l", "o", "u", "d", "f", "l", "a", "r", "e">>

\* shouldFallbackToBrowser with the network errors looked for first
shouldFallbackToBrowserNetworkFirst(message) ==
  LET errorMessage == toLowerCase(message)
  IN IF \/ includes(errorMessage, enotfound)
        \/ includes(errorMessage, econnrefused)
        \/ includes(errorMessage, certificate)
     THEN FALSE
     ELSE TRUE

shouldFallbackToBrowser(message) ==
  LET errorMessage == toLowerCase(message)
  IN IF \/ includes(errorMessage, timeout)
        \/ includes(errorMessage, empty)
        \/ includes(errorMessage, noContent)
        \/ includes(errorMessage, javascript)
     THEN TRUE
     ELSE IF \/ includes(errorMessage, enotfound)
             \/ includes(errorMessage, econnrefused)
             \/ includes(errorMessage, certificate)
     THEN FALSE
     ELSE IF \/ includes(errorMessage, code403)
             \/ includes(errorMessage, code503)
             \/ includes(errorMessage, cloudflare)
     THEN TRUE
     ELSE TRUE

\* the words of the error messages
Vocabulary ==
  {<<"t", "i", "m", "e", "o", "u", "t">>,
   <<"E", "m", "p", "t", "y">>,
   <<"n", "o">>,
   <<"c", "o", "n", "t", "e", "n", "t">>,
   <<"J", "a", "v", "a", "S", "c", "r", "i", "p", "t">>,
   <<"E", "N", "O", "T", "F", "O", "U", "N", "D">>,
   <<"E", "C", "O", "N", "N", "R", "E", "F", "U", "S", "E", "D">>,
   <<"c", "e", "r", "t", "i", "f", "i", "c", "a", "t", "e">>,
   <<"4", "0", "3">>,
   <<"5", "0", "3">>,
   <<"C", "l", "o", "u", "d", "f", "l", "a", "r", "e">>,
   <<"s", "t", "a", "t", "u", "s">>}

\* the largest number of words of a message
MaxWords == 2

\* the words with one space between them
RECURSIVE Join(_)
Join(ws) ==
  IF ws = <<>> THEN <<>>
  ELSE IF Len(ws) = 1 THEN ws[1]
  ELSE ws[1] \o <<" ">> \o Join(Tail(ws))

Messages == {Join(ws) : ws \in UNION {[1 .. n -> Vocabulary] : n \in 0 .. MaxWords}}

InitClassify ==
  /\ error \in Messages
  /\ fallback = "none"
  /\ pc = "classify"
  /\ blocks = <<>>
  /\ candidate = Block(<<>>, <<>>, <<>>, <<>>)
  /\ included = FALSE
  /\ Idle
  /\ NoBatch
  /\ NoCache

Classify ==
  /\ pc = "classify"
  /\ fallback' = shouldFallbackToBrowser(error)
  /\ pc' = "classified"
  /\ UNCHANGED <<blocks, i, scanVars, pruneVars, mainContentBlocks, callVars,
                 filterVars, batchVars, error, cacheVars>>

NextClassify == Classify

SpecClassify == InitClassify /\ [][NextClassify]_vars

\* ------------------------------------------------------------ crawlUrls ----
\* SmartCrawlerCoordinator.crawlUrls, SmartCrawlerCoordinator.crawlUrl and
\* NonBrowserCrawler.crawlUrl, from one wait (await) to the next.  What a
\* successful fetch extracted is left out.

\* the largest number of locators of a batch
MaxUrls == 2

\* the locators: two that new URL() parses and one that it rejects
Locators == {"http://a.example/", "http://b.example/", "not a url"}

\* new URL(url) does not throw
ParsesAsUrl(url) == url \in {"http://a.example/", "http://b.example/"}

\* the values of options.delay: a number is <<number>>, undefined is <<>>
Delays == {<<>>, <<0>>, <<1000>>}

\* x || d
Or(x, d) == IF x = <<>> \/ x = <<0>> THEN d ELSE x[1]

\* delay of crawlUrls with ?? in the place of ||
delayUnlessUndefined(opts) == IF opts.delay = <<>> THEN 2000 ELSE opts.delay[1]

\* delay of crawlUrls
delay(opts) == Or(opts.delay, 2000)

\* this.maxRetries and this.retryDelay of NonBrowserCrawler
thisMaxRetries == 2
retryDelay == 1000

\* maxRetries of NonBrowserCrawler.crawlUrl: executeNonBrowserCrawl hands it no
\* options
maxRetries == Or(<<>>, thisMaxRetries)

\* the wait before every retry as long as before the first
retryWaitConstant(k) == retryDelay

\* the wait after failed attempt k
retryWait(k) == retryDelay * k

\* the answers to a request: an HTML document, a document of another type, or
\* an error of axios
Responses ==
  {[contentType |-> "text/html"], [contentType |-> "application/pdf"],
   [message |-> timeout], [message |-> <<"E", "N", "O", "T", "F", "O", "U", "N", "D">>]}

isResponse(answer) == "contentType" \in DOMAIN answer

\* contentType.includes('text/html')
isHtml(response) == response.contentType = "text/html"

\* `Non-HTML content type: ${contentType}`, for application/pdf
NonHtmlMessage ==
  <<"N", "o", "n", "-", "H", "T", "M", "L", " ", "c", "o", "n", "t", "e", "n", "t", " ", "t", "y", "p", "e", ":", " ", "a", "p", "p", "l", "i", "c", "a", "t", "i", "o", "n", "/", "p", "d", "f">>

\* `Invalid URL: ${url}`
InvalidUrlMessage(url) ==
  <<"I", "n", "v", "a", "l", "i", "d", " ", "U", "R", "L", ":", " ">> \o <<url>>

\* extractDomainName throws before the try block of crawlUrl
Thrown(url) == [kind |-> "thrown", message |-> InvalidUrlMessage(url)]

\* what SmartCrawlerCoordinator.crawlUrl returns for the result of the
\* lightweight fetch
Returned(url, result) ==
  [kind |-> "returned",
   value |-> IF result.success
             THEN [success |-> TRUE, url |-> url, method |-> "non_browser"]
             ELSE [success |-> FALSE, url |-> url, method |-> "non_browser",
                   error |-> result.error]]

\* the entry of results for an exception, with no url
ExceptionEntryNoUrl(url, message) ==
  [success |-> FALSE, url |-> "undefined", error |-> message, processingTime |-> 0]

\* the entry of results for an exception of crawlUrl
ExceptionEntry(url, message) ==
  [success |-> FALSE, url |-> url, error |-> message, processingTime |-> 0]

successCount(rs) == Cardinality({n \in 1 .. Len(rs) : rs[n].success})

\* the iteration of the loop of crawlUrls for locator k, up to its first wait,
\* or the end of crawlUrls when there is no such locator
Iteration(k, rs, lg) ==
  /\ item' = k
  /\ results' = rs
  /\ IF k < Len(urls)
     THEN /\ log' = Append(lg, <<"fetch", k>>)
          /\ batch' = batch
          /\ crawlResult' = [method |-> "none"]
          /\ IF ParsesAsUrl(urls[k + 1])
             THEN /\ attempt' = 1
                  /\ trace' = <<<<"get", 1>>>>
                  /\ outcome' = [kind |-> "none"]
                  /\ pc' = "fetching"
             ELSE /\ attempt' = 0
                  /\ trace' = <<>>
                  /\ outcome' = Thrown(urls[k + 1])
                  /\ pc' = "settled"
     ELSE /\ log' = lg
          /\ batch' = [success |-> TRUE,
                       totalUrls |-> Len(urls),
                       successfulUrls |-> successCount(rs),
                       failedUrls |-> Len(urls) - successCount(rs),
                       results |-> rs]
          /\ pc' = "returned"
          /\ UNCHANGED <<attempt, trace, crawlResult, outcome>>

InitCrawl ==
  /\ urls \in UNION {[1 .. n -> Locators] : n \in 0 .. MaxUrls}
  /\ options \in [delay : Delays]
  /\ item = 0
  /\ attempt = 0
  /\ trace = <<>>
  /\ crawlResult = [method |-> "none"]
  /\ outcome = [kind |-> "none"]
  /\ results = <<>>
  /\ log = <<>>
  /\ batch = [success |-> FALSE]
  /\ pc = "call"
  /\ blocks = <<>>
  /\ candidate = Block(<<>>, <<>>, <<>>, <<>>)
  /\ included = FALSE
  /\ Idle
  /\ NoError
  /\ NoCache

pipelineVars == <<blocks, i, scanVars, pruneVars, mainContentBlocks, callVars, filterVars>>

\* the call of crawlUrls
CrawlUrls ==
  /\ pc = "call"
  /\ Iteration(0, <<>>, <<>>)
  /\ UNCHANGED <<urls, options, pipelineVars, classifyVars, cacheVars>>

\* the lightweight fetch returns to crawlUrl, which returns to crawlUrls
Return(result) ==
  /\ crawlResult' = result
  /\ outcome' = Returned(urls[item + 1], result)
  /\ pc' = "settled"

\* an HTML document arrives
ReceiveHtml ==
  /\ pc = "fetching"
  /\ \E response \in Responses :
       /\ isResponse(response)
       /\ isHtml(response)
       /\ trace' = Append(trace, <<"response", "html">>)
       /\ Return([success |-> TRUE, method |-> "non_browser"])
  /\ UNCHANGED <<urls, options, item, attempt, results, log, batch,
                 pipelineVars, classifyVars, cacheVars>>

\* an error arrives, or a document that is not HTML
ReceiveFailure ==
  /\ pc = "fetching"
  /\ \E answer \in Responses :
       /\ isResponse(answer) => ~isHtml(answer)
       /\ LET message == IF isResponse(answer) THEN NonHtmlMessage ELSE answer.message
              received == Append(trace, <<"response",
                                          IF isResponse(answer) THEN "nonhtml" ELSE "error">>)
          IN IF attempt > maxRetries
             THEN /\ trace' = received
                  /\ Return([success |-> FALSE,
                             method |-> "non_browser",
                             error |-> message,
                             shouldFallbackToBrowser |-> shouldFallbackToBrowser(message)])
             ELSE /\ trace' = Append(received, <<"wait", retryWait(attempt)>>)
                  /\ pc' = "backoff"
                  /\ UNCHANGED <<crawlResult, outcome>>
  /\ UNCHANGED <<urls, options, item, attempt, results, log, batch,
                 pipelineVars, classifyVars, cacheVars>>

\* the wait before a retry ends
RetryTimer ==
  /\ pc = "backoff"
  /\ attempt' = attempt + 1
  /\ trace' = Append(trace, <<"get", attempt + 1>>)
  /\ pc' = "fetching"
  /\ UNCHANGED <<urls, options, item, crawlResult, outcome, results, log, batch,
                 pipelineVars, classifyVars, cacheVars>>

\* crawlUrls goes on after crawlUrl returned or threw
Settle ==
  /\ pc = "settled"
  /\ LET url == urls[item + 1]
         rs == Append(results, IF outcome.kind = "returned" THEN outcome.value
                               ELSE ExceptionEntry(url, outcome.message))
         lg == Append(log, <<"done", item>>)
     IN IF item < Len(urls) - 1 /\ delay(options) > 0
        THEN /\ results' = rs
             /\ log' = Append(lg, <<"delay", delay(options)>>)
             /\ pc' = "pause"
             /\ UNCHANGED <<item, attempt, trace, crawlResult, outcome, batch>>
        ELSE Iteration(item + 1, rs, lg)
  /\ UNCHANGED <<urls, options, pipelineVars, classifyVars, cacheVars>>

\* the delay between two locators ends
DelayTimer ==
  /\ pc = "pause"
  /\ Iteration(item + 1, results, log)
  /\ UNCHANGED <<urls, options, pipelineVars, classifyVars, cacheVars>>

NextCrawl ==
  CrawlUrls \/ ReceiveHtml \/ ReceiveFailure \/ RetryTimer \/ Settle \/ DelayTimer

SpecCrawl == InitCrawl /\ [][NextCrawl]_vars

\* ---------------------------------------------------- extractSimpleText ----
\* The cache of SimpleTextExtractor: the files of the output directory.  A
\* file name text_<domain>_<urlHash>_<timestamp>.json is the record of its
\* three parts; the page a fetch extracts is named by the number of the call
\* that fetched it.

\* the largest number of calls of extractSimpleText
MaxCalls == 3

\* the last value of Date.now()
LastTime == 12

Callers == {1, 2}

\* the locators: the MD5 digests of the first two begin with the same 8
\* hexadecimal digits
CacheLocators ==
  {"https://example.com/page/162754", "https://example.com/page/194921",
   "https://example.org/"}

\* crypto.createHash('md5').update(url).digest('hex').substring(0, 8)
urlHash(url) ==
  CASE url = "https://example.com/page/162754" -> "e52bda1c"
    [] url = "https://example.com/page/194921" -> "e52bda1c"
    [] url = "https://example.org/" -> "ef57f67c"

\* urlObj.hostname.replace(/[^a-zA-Z0-9]/g, '_')
domain(url) ==
  CASE url = "https://example.com/page/162754" -> "example_com"
    [] url = "https://example.com/page/194921" -> "example_com"
    [] url = "https://example.org/" -> "example_org"

\* the decimal digits of a number, as a template literal writes it
RECURSIVE Decimal(_)
Decimal(n) == IF n < 10 THEN <<n>> ELSE Decimal(n \div 10) \o <<n % 10>>

\* generateFileName, at time t
generateFileName(url, t) ==
  [domain |-> domain(url), urlHash |-> urlHash(url), timestamp |-> Decimal(t)]

\* no file
noFile == [domain |-> "", urlHash |-> "", timestamp |-> <<>>]

\* the order of Array.prototype.sort on two timestamps followed by ".json"
\* ("." comes before every digit)
SortsBefore(a, b) ==
  \E k \in 1 .. Len(b) :
    /\ \A n \in 1 .. k - 1 : n <= Len(a) /\ a[n] = b[n]
    /\ k > Len(a) \/ a[k] < b[k]

\* matchingFiles.sort()[0]
oldestFile(matchingFiles) ==
  CHOOSE f \in matchingFiles :
    \A g \in matchingFiles : g = f \/ SortsBefore(f.timestamp, g.timestamp)

\* matchingFiles.sort().reverse()[0]
latestFile(matchingFiles) ==
  CHOOSE f \in matchingFiles :
    \A g \in matchingFiles : g = f \/ SortsBefore(g.timestamp, f.timestamp)

\* the name of the file to reuse, or noFile
findExistingExtractedFile(dir, url, ignoreCache) ==
  IF ignoreCache THEN noFile
  ELSE LET matchingFiles == {f.name : f \in {g \in dir :
                                /\ g.name.domain = domain(url)
                                /\ g.name.urlHash = urlHash(url)}}
       IN IF matchingFiles # {} THEN latestFile(matchingFiles) ELSE noFile

\* JSON.parse(fs.readFileSync(filePath))
loadExistingData(dir, name) == (CHOOSE f \in dir : f.name = name).content

\* fs.writeFileSync(filePath, JSON.stringify(extractedData))
writeFileSync(dir, name, data) ==
  {f \in dir : f.name # name} \cup {[name |-> name, content |-> data]}

\* what the request handler extracts at time t in call number n
ExtractedData(url, t, n) ==
  [url |-> url, totalItems |-> n, extractedAt |-> t, blocks |-> n]

\* what a live extraction resolves with
Resolved(url, name, data) ==
  [url |-> url, fileName |-> name, filePath |-> name,
   totalItems |-> data.totalItems, extractedAt |-> data.extractedAt,
   data |-> data]

\* the outcomes of a crawl: data, an error, or neither
Crawls == {"data", "error", "nothing"}

\* the directory after a crawl, with a file written whatever the crawl gave
afterCrawlAlwaysWritten(dir, ended, name, data) == writeFileSync(dir, name, data)

\* the directory after a crawl
afterCrawl(dir, ended, name, data) ==
  IF ended = "error" THEN dir
  ELSE IF ended = "nothing" THEN dir
  ELSE writeFileSync(dir, name, data)

idle ==
  [state |-> "idle", url |-> "", ignoreCache |-> FALSE, call |-> 0,
   concurrent |-> FALSE]

\* caller p is fetching url
Fetching(jobs, p, url) == jobs[p].state = "fetching" /\ jobs[p].url = url

InitCache ==
  /\ files = {}
  /\ now = FirstTime
  /\ job = [p \in Callers |-> idle]
  /\ calls = 0
  /\ last = [op |-> "none"]
  /\ stored = <<>>
  /\ pc = "cache"
  /\ blocks = <<>>
  /\ candidate = Block(<<>>, <<>>, <<>>, <<>>)
  /\ included = FALSE
  /\ Idle
  /\ NoBatch
  /\ NoError

\* a call of extractSimpleText that finds a file and returns its content
CacheHit(p) ==
  /\ job[p].state = "idle"
  /\ calls < MaxCalls
  /\ \E url \in CacheLocators, ignoreCache \in BOOLEAN :
       LET existingFile == findExistingExtractedFile(files, url, ignoreCache)
       IN /\ existingFile # noFile
          /\ last' = [op |-> "hit", caller |-> p, url |-> url,
                      ignoreCache |-> ignoreCache,
                      value |-> loadExistingData(files, existingFile)]
  /\ calls' = calls + 1
  /\ UNCHANGED <<pc, pipelineVars, fetchVars, files, now, job, stored>>

\* a call of extractSimpleText that finds no file and starts the crawler
CacheMiss(p) ==
  /\ job[p].state = "idle"
  /\ calls < MaxCalls
  /\ \E url \in CacheLocators, ignoreCache \in BOOLEAN :
       /\ findExistingExtractedFile(files, url, ignoreCache) = noFile
       /\ job' = [q \in Callers |->
                    IF q = p
                    THEN [state |-> "fetching", url |-> url,
                          ignoreCache |-> ignoreCache, call |-> calls + 1,
                          concurrent |-> \E other \in Callers \ {p} :
                                           Fetching(job, other, url)]
                    ELSE IF Fetching(job, q, url)
                    THEN [job[q] EXCEPT !.concurrent = TRUE]
                    ELSE job[q]]
       /\ last' = [op |-> "miss", caller |-> p, url |-> url,
                   ignoreCache |-> ignoreCache]
  /\ calls' = calls + 1
  /\ UNCHANGED <<pc, pipelineVars, fetchVars, files, now, stored>>

\* the crawler of caller p has ended: the artifact is written and the call
\* resolves, or the call rejects
CrawlEnd(p) ==
  /\ job[p].state = "fetching"
  /\ \E ended \in Crawls :
       LET url == job[p].url
           data == ExtractedData(url, now, job[p].call)
           fileName == generateFileName(url, now)
       IN /\ files' = afterCrawl(files, ended, fileName, data)
          /\ IF ended = "data"
             THEN /\ last' = [op |-> "resolved", caller |-> p, url |-> url,
                              ignoreCache |-> job[p].ignoreCache,
                              value |-> Resolved(url, fileName, data)]
                  /\ stored' = Append(stored,
                       [url |-> url, name |-> fileName, data |-> data,
                        returned |-> Resolved(url, fileName, data),
                        concurrent |-> job[p].concurrent])
             ELSE /\ last' = [op |-> "rejected", caller |-> p, url |-> url,
                              ignoreCache |-> job[p].ignoreCache]
                  /\ stored' = stored
  /\ job' = [job EXCEPT ![p] = idle]
  /\ UNCHANGED <<pc, pipelineVars, fetchVars, now, calls>>

\* time passes
Tick ==
  /\ pc = "cache"
  /\ now < LastTime
  /\ now' = now + 1
  /\ UNCHANGED <<pc, pipelineVars, fetchVars, files, job, calls, last, stored>>

NextCache ==
  \/ \E p \in Callers : CacheHit(p) \/ CacheMiss(p) \/ CrawlEnd(p)
  \/ Tick

SpecCache == InitCache /\ [][NextCache]_vars

\* ---------------------------------------------------------- properties ----
\* The properties describe the fragments by their text, not by the code's
\* predicates: a string has text if some character of it is not whitespace,
\* and its words are the maximal runs of such characters.

HasText(s) == \E n \in DOMAIN s : s[n] # " "

NumWords(s) == Cardinality({n \in DOMAIN s : s[n] # " " /\ (n = 1 \/ s[n - 1] = " ")})

Keepable(b) == HasText(b.title) \/ HasText(b.image) \/ NumWords(b.content) >= 20

KeepableKind == [k \in Kinds |-> Keepable(Fragment[k])]
ContentBearingKind == [k \in Kinds |->
  HasText(Fragment[k].title) \/ NumWords(Fragment[k].content) >= 15]
PairEligibleKind == [k \in Kinds |->
  NumWords(Fragment[k].title) >= 5 \/ NumWords(Fragment[k].content) >= 5]
LinkedKind == [k \in Kinds |-> HasText(Fragment[k].link)]
ContentfulKind == [k \in Kinds |->
  HasText(Fragment[k].title) \/ HasText(Fragment[k].content)]

Range(f) == {f[n] : n \in DOMAIN f}

ContentBearing(k) == ContentBearingKind[at(k)]

NoneInFirst10 == \A k \in 0 .. Min(9, length - 1) : ~ContentBearing(k)

\* the window of the n-th region of the sequence
WindowOf(n) == IF n = 1 /\ NoneInFirst10 THEN 20 ELSE 10

Holds(region, k) == region.start <= k /\ k <= region.end

\* C3: two content-bearing fragments at most 10 apart lie in one region.
C3_NearbyContentMerged ==
  pc = "done" =>
    \A a, b \in 0 .. length - 1 :
      (a < b /\ b - a <= 10 /\ ContentBearing(a) /\ ContentBearing(b)) =>
        /\ \E n \in 1 .. Len(regions) : Holds(regions[n], a) /\ Holds(regions[n], b)
        /\ \A n \in 1 .. Len(regions) : Holds(regions[n], a) <=> Holds(regions[n], b)

\* two content-bearing fragments exactly 10 apart, nothing content-bearing
\* between them, in one region
C3_Witness ==
  /\ pc = "done"
  /\ \E a \in 0 .. length - 11 :
       /\ ContentBearing(a)
       /\ ContentBearing(a + 10)
       /\ \A k \in a + 1 .. a + 9 : ~ContentBearing(k)
       /\ \E n \in 1 .. Len(regions) : Holds(regions[n], a) /\ Holds(regions[n], a + 10)

\* the n fragments after k exist and none is content-bearing
Silence(k, n) == k + n <= length - 1 /\ \A j \in k + 1 .. k + n : ~ContentBearing(j)

\* C4 as stated: a content-bearing fragment after a 10-fragment silence is
\* never in the region of the content-bearing fragment before the silence.
C4_SilenceEndsRegion ==
  pc = "done" =>
    \A n \in 1 .. Len(regions) :
      \A k, j \in regions[n].start .. regions[n].end :
        ~(ContentBearing(k) /\ Silence(k, 10) /\ j > k + 10 /\ ContentBearing(j))

\* C4, amended: that holds of the regions of window 10; a region of window 20
\* is ended by a silence of 19 fragments.
C4_SilenceEndsRegionOfWindow ==
  pc = "done" =>
    \A n \in 1 .. Len(regions) :
      LET silence == IF regions[n].extendRange = 10 THEN 10 ELSE 19
      IN \A k, j \in regions[n].start .. regions[n].end :
           ~(ContentBearing(k) /\ Silence(k, silence) /\ j > k + silence
             /\ ContentBearing(j))

\* a region of window 10, a silence of 10 fragments after its last
\* content-bearing fragment, and the next region right after the silence
C4_Witness ==
  /\ pc = "done"
  /\ \E n \in 1 .. Len(regions) - 1 :
       /\ regions[n].extendRange = 10
       /\ Silence(regions[n].lastValidContentIndex, 10)
       /\ regions[n + 1].start = regions[n].lastValidContentIndex + 11

\* a link pair: 5 words of title or content, and a link on the fragment or on
\* one of the next 3
PairAt(k) ==
  /\ PairEligibleKind[at(k)]
  /\ \E j \in k .. Min(k + 3, length - 1) : LinkedKind[at(j)]

\* the indices of the region at which a run of 15 link pairs, all of them in
\* the region, ends
Hits(region) ==
  {h \in region.start + 14 .. region.end : \A k \in h - 14 .. h : PairAt(k)}

FirstHit(region) == CHOOSE h \in Hits(region) : \A g \in Hits(region) : h <= g

\* the pruned regions that come from the region
FinalOf(region) == {f \in Range(finalRegions) : f.start = region.start}

\* C5 as stated: a run of 15 link pairs moves the region's end to the index
\* before the run's first fragment, so no fragment of the run stays in the
\* region; without such a run the end is untouched.
C5_TruncatedBeforeRun ==
  pc = "done" =>
    \A n \in 1 .. Len(regions) :
      IF Hits(regions[n]) = {}
      THEN \E f \in FinalOf(regions[n]) : f.end = regions[n].end
      ELSE \A f \in FinalOf(regions[n]) :
             /\ f.end = FirstHit(regions[n]) - 15
             /\ \A k \in FirstHit(regions[n]) - 14 .. FirstHit(regions[n]) : ~Holds(f, k)

ContentfulBlocks == {k \in 0 .. length - 1 : ContentfulKind[at(k)]}
LinkedBlocks ==
  {k \in ContentfulBlocks : \E j \in k .. Min(k + 3, length - 1) : Fragment[at(j)].link # <<>>}

\* the fragments of the result, and the fragments of the sequence to keep
ResultKinds == [n \in 1 .. Len(mainContentBlocks) |-> mainContentBlocks[n].block]
KeptKinds == SelectSeq(blocks, LAMBDA kind : KeepableKind[kind])

\* C7: without a region the result is empty if more than 70% of the
\* fragments with title or content have a link near, and the kept fragments
\* of the whole sequence otherwise.
C7_SuppressionThreshold ==
  (pc = "done" /\ length > 0 /\ Len(finalRegions) = 0) =>
    IF 10 * Cardinality(LinkedBlocks) > 7 * Cardinality(ContentfulBlocks)
    THEN mainContentBlocks = <<>>
    ELSE ResultKinds = KeptKinds

\* exactly 70%: 7 of 10, and the result is not empty
C7_Witness ==
  /\ pc = "done"
  /\ Len(finalRegions) = 0
  /\ Cardinality(ContentfulBlocks) = 10
  /\ Cardinality(LinkedBlocks) = 7
  /\ mainContentBlocks # <<>>

InFinalRegion(k) == \E f \in Range(finalRegions) : Holds(f, k)

\* C8: with a region, the result is the keepable fragments inside the pruned
\* regions, each once, in document order.
C8_InRegionKeepable ==
  (pc = "done" /\ Len(finalRegions) > 0) =>
    /\ \A n \in 1 .. Len(mainContentBlocks) :
         /\ mainContentBlocks[n].meta.blockIndex \in 0 .. length - 1
         /\ mainContentBlocks[n].block = at(mainContentBlocks[n].meta.blockIndex)
    /\ \A n \in 1 .. Len(mainContentBlocks) - 1 :
         mainContentBlocks[n].meta.blockIndex < mainContentBlocks[n + 1].meta.blockIndex
    /\ {mainContentBlocks[n].meta.blockIndex : n \in 1 .. Len(mainContentBlocks)}
         = {k \in 0 .. length - 1 : InFinalRegion(k) /\ KeepableKind[at(k)]}

\* [title, 20-word paragraph, short linked content] gives title and paragraph
C8_Witness ==
  /\ pc = "done"
  /\ blocks = <<"t1", "c20", "c4l">>
  /\ ResultKinds = <<"t1", "c20">>

WellFormed(rs) ==
  \A n \in 1 .. Len(rs) :
    /\ 0 <= rs[n].start
    /\ rs[n].start <= rs[n].end
    /\ rs[n].end <= length - 1
    /\ n > 1 => rs[n].start > rs[n - 1].end

\* C9: detected and pruned regions lie in the sequence, start before they
\* end, and each starts after the previous one ends.
C9_RegionsDisjoint ==
  /\ pc \in {"prune", "extract", "done"} => WellFormed(regions)
  /\ pc \in {"extract", "done"} => WellFormed(finalRegions)

\* two detected regions, two pruned regions
C9_Witness ==
  /\ pc = "done"
  /\ Len(regions) = 2
  /\ Len(finalRegions) = 2

BareKind == [k \in Kinds |->
  Fragment[k].title = <<>> /\ Fragment[k].content = <<>> /\ Fragment[k].image = <<>>]

\* C11: a sequence of fragments that are empty or only a link, and the empty
\* sequence, give the empty list.
C11_NothingKeepable ==
  (pc = "done" /\ \A k \in 0 .. length - 1 : BareKind[at(k)]) =>
    mainContentBlocks = <<>>

\* a sequence of empty fragments and fragments that are only a link, filtered
C11_Witness ==
  /\ pc = "done"
  /\ mainContentBlocks = <<>>
  /\ \A k \in 0 .. length - 1 : BareKind[at(k)]
  /\ \E k \in 0 .. length - 1 : at(k) = "link"
  /\ \E k \in 0 .. length - 1 : at(k) = "empty"

\* the steps a run of the three stages still has before it: the blocks the
\* detector and the pruner have not scanned yet, and the filter
Rank ==
  CASE pc = "start" -> 2 * length + 3
    [] pc = "detect" -> (length - i) + length + 2
    [] pc = "prune" -> (length - i) + 1
    [] pc = "extract" -> 1
    [] OTHER -> 0

\* no block outside the sequence is read at the next step
ReadsInRange ==
  /\ (pc = "detect" /\ i < length) => \A k \in DetectReads : InRange(k)
  /\ pc = "prune" => \A k \in PruneReads : InRange(k)

\* C12: on every sequence the detector, the pruner and the filter end after a
\* bounded number of steps, read no block outside the sequence (both
\* look-aheads stop at the last block), raise nothing, and return a list.
C12_StagesNeverFail ==
  /\ [](pc # "threw")
  /\ []ReadsInRange
  /\ [](pc # "done" => ENABLED Next)
  /\ [](pc = "done" =>
         \A n \in 1 .. Len(mainContentBlocks) : mainContentBlocks[n].block \in Kinds)
  /\ [][Rank' < Rank]_vars

\* a run that ended although the last block is content without a link in a
\* region the pruner scanned to its end: the detector's look-ahead and the
\* pruner's search for a link both stopped at the last block
C12_Witness ==
  /\ pc = "done"
  /\ length >= 12
  /\ ValidContentForPattern[at(length - 1)] /\ ~HasLink[at(length - 1)]
  /\ \E n \in 1 .. Len(regions) :
       /\ regions[n].end = length - 1
       /\ regions[n].lastValidContentIndex + 10 > length - 1
  /\ \E f \in Range(finalRegions) : f.end = length - 1
  /\ mainContentBlocks # <<>>


\* the message carries the signature, in whatever case
Carries(message, signature) ==
  \E k \in 1 .. Len(message) - Len(signature) + 1 :
    \A n \in 1 .. Len(signature) : toLowerCase(<<message[k + n - 1]>>) = <<signature[n]>>

NetworkSignatures == {enotfound, econnrefused, certificate}

RenderSignatures == {timeout, empty, noContent, javascript}

BlockSignatures == {code403, code503, cloudflare}

CarriesOneOf(message, signatures) == \E g \in signatures : Carries(message, g)

\* C15: an error whose message carries ENOTFOUND, ECONNREFUSED or certificate
\* is never escalated, whatever else the message contains.
C15_NetworkNeverEscalates ==
  (pc = "classified" /\ CarriesOneOf(error, NetworkSignatures)) => fallback = FALSE

\* C16: an error whose message carries timeout, empty, no content, javascript,
\* 403, 503 or cloudflare is escalated.
C16_EscalatableFlagged ==
  (pc = "classified" /\ CarriesOneOf(error, RenderSignatures \cup BlockSignatures)) =>
    fallback = TRUE

\* C16, amended: an error whose message carries timeout, empty, no content or
\* javascript is escalated; one whose message carries 403, 503 or cloudflare
\* is escalated unless the message also carries ENOTFOUND, ECONNREFUSED or
\* certificate and none of the four signatures before, and then it is not.
C16_EscalatableFlaggedUnlessNetwork ==
  pc = "classified" =>
    /\ CarriesOneOf(error, RenderSignatures) => fallback = TRUE
    /\ (/\ CarriesOneOf(error, BlockSignatures)
        /\ ~CarriesOneOf(error, NetworkSignatures)) => fallback = TRUE
    /\ (/\ CarriesOneOf(error, BlockSignatures)
        /\ CarriesOneOf(error, NetworkSignatures)
        /\ ~CarriesOneOf(error, RenderSignatures)) => fallback = FALSE

\* a message with 403 and ECONNREFUSED and none of timeout, empty, no content
\* and javascript, classified
C16_Witness ==
  /\ pc = "classified"
  /\ Carries(error, code403)
  /\ Carries(error, econnrefused)
  /\ ~CarriesOneOf(error, RenderSignatures)
  /\ fallback = FALSE

\* the last element of a sequence that is not empty
Last(q) == q[Len(q)]

\* what one call of NonBrowserCrawler.crawlUrl may have done so far: requests
\* 1, 2, 3 in turn, each followed by its answer, a wait of retryDelay x k
\* between the failed request k and request k + 1, and nothing after an HTML
\* answer nor after the third answer
TraceShape ==
  /\ Len(trace) <= 8
  /\ \A n \in 1 .. Len(trace) :
       /\ n % 3 = 1 => trace[n] = <<"get", (n + 2) \div 3>>
       /\ n % 3 = 2 => trace[n][1] = "response"
       /\ n % 3 = 0 => /\ trace[n] = <<"wait", retryDelay * (n \div 3)>>
                       /\ trace[n - 1] # <<"response", "html">>
       /\ trace[n] = <<"response", "html">> => n = Len(trace)

\* the call has returned exactly when the last request was answered with HTML
\* or the third request has failed
ReturnsWhenDue ==
  /\ pc = "fetching" => Last(trace)[1] = "get"
  /\ pc = "backoff" => Last(trace)[1] = "wait"
  /\ (pc = "settled" /\ outcome.kind = "returned") =>
       /\ Last(trace)[1] = "response"
       /\ crawlResult.success <=> Last(trace) = <<"response", "html">>
       /\ ~crawlResult.success => Len(trace) = 8

\* the steps a batch still has before it: at most 7 for each locator
CrawlRank ==
  CASE pc = "call" -> 8 * (Len(urls) + 1)
    [] pc = "returned" -> 0
    [] pc = "fetching" -> 8 * (Len(urls) - item - 1) + 2 * (3 - attempt) + 3
    [] pc = "backoff" -> 8 * (Len(urls) - item - 1) + 2 * (3 - attempt) + 2
    [] pc = "settled" -> 8 * (Len(urls) - item - 1) + 2
    [] pc = "pause" -> 8 * (Len(urls) - item - 1) + 1
    [] OTHER -> 0

C14_NonHtmlNotRetried ==
  \A n \in 1 .. Len(trace) :
    trace[n] = <<"response", "nonhtml">> => (n = Len(trace) /\ pc # "fetching")

\* C17: when the lightweight fetch fails, crawlUrl returns after a rendered
\* fetch if the failure is to be escalated, and without one if it is not.
C17_EscalationPerformed ==
  (pc = "settled" /\ outcome.kind = "returned" /\ ~crawlResult.success) =>
    (crawlResult.shouldFallbackToBrowser <=>
       \E n \in 1 .. Len(trace) : trace[n][1] = "render")

\* C18: a failed fetch is returned by crawlUrl, not thrown, with success =
\* false, an error and the shouldFallbackToBrowser of the lightweight fetch.
C18_StructuredFailure ==
  pc = "settled" =>
    /\ outcome.kind = "returned"
    /\ ~outcome.value.success =>
         /\ "error" \in DOMAIN outcome.value
         /\ "shouldFallbackToBrowser" \in DOMAIN outcome.value
         /\ outcome.value.shouldFallbackToBrowser = crawlResult.shouldFallbackToBrowser

\* C19: crawlUrls goes on after every locator, whatever its fetch gave, and
\* returns one result for each locator, in the order of the locators, with
\* successfulUrls + failedUrls = the number of locators.
C19_BatchSurvives ==
  /\ pc # "returned" => ENABLED NextCrawl
  /\ Len(results) <= Len(urls)
  /\ \A k \in 1 .. Len(results) : results[k].url = urls[k]
  /\ pc = "returned" =>
       /\ batch.results = results
       /\ Len(results) = Len(urls)
       /\ batch.totalUrls = Len(urls)
       /\ batch.successfulUrls = Cardinality({k \in 1 .. Len(urls) : results[k].success})
       /\ batch.successfulUrls + batch.failedUrls = Len(urls)
       /\ \A k \in 0 .. Len(urls) - 1 : \E n \in 1 .. Len(log) : log[n] = <<"fetch", k>>

\* a batch of a locator that is no URL and a locator whose fetch succeeded
C19_Witness ==
  /\ pc = "returned"
  /\ Len(urls) = 2
  /\ ~ParsesAsUrl(urls[1])
  /\ ~batch.results[1].success
  /\ batch.results[2].success

C23_RegionGrowthMonotone ==
  [][(currentRegion # null /\ currentRegion' # null) =>
       /\ currentRegion'.end >= currentRegion.end
       /\ currentRegion'.lastValidContentIndex >= currentRegion.lastValidContentIndex
       /\ currentRegion'.start = currentRegion.start
       /\ currentRegion'.extendRange = currentRegion.extendRange]_vars

\* an open region that has grown past its first end because the look-ahead at
\* its end found valid content: the block to scan next
C23_Witness ==
  /\ pc = "detect"
  /\ i < length
  /\ currentRegion # null
  /\ currentRegion.lastValidContentIndex = i
  /\ currentRegion.lastValidContentIndex > currentRegion.start
  /\ currentRegion.end > currentRegion.start + currentRegion.extendRange - 1

\* the length of the longest run of link pairs that ends at fragment k and
\* starts at fragment from or later
PairRun(from, k) ==
  Cardinality({a \in from .. k : \A b \in a .. k : PairAt(b)})

\* C24: when checkLinkPatterns comes to fragment i of a region, its counter of
\* consecutive pairs is the length of the longest run of link pairs that ends
\* at fragment i - 1 and starts in the region: 0 at the start of each region
\* and after every fragment that is not a link pair.
C24_ConsecutivePairCounter ==
  pc = "prune" =>
    /\ consecutivePairs = PairRun(regions[r].start, i - 1)
    /\ i = regions[r].start => consecutivePairs = 0
    /\ (i > regions[r].start /\ ~PairAt(i - 1)) => consecutivePairs = 0

\* the counter after three link pairs that have no link of their own: the link
\* is 3, 2 and 1 fragments after them
C24_Witness ==
  /\ pc = "prune"
  /\ consecutivePairs = 3
  /\ i >= regions[r].start + 4
  /\ \A k \in i - 3 .. i - 1 : PairAt(k) /\ ~LinkedKind[at(k)]
  /\ LinkedKind[at(i)]

\* the regions that hold fragment k, among the regions found and the open one
RegionsHolding(k) ==
  {n \in 1 .. Len(regions) : Holds(regions[n], k)}

OpenHolds(k) == pc = "detect" /\ currentRegion # null /\ Holds(currentRegion, k)

\* C25: every content-bearing fragment the detector has scanned lies in exactly
\* one region, found or still open; every region starts at a content-bearing
\* fragment; and at the end of detectContentRegions no region is left out of
\* its result: every content-bearing fragment lies in exactly one region of it.
C25_DetectorCoverage ==
  /\ pc = "detect" =>
       \A k \in 0 .. i - 1 :
         ContentBearing(k) =>
           Cardinality(RegionsHolding(k)) + (IF OpenHolds(k) THEN 1 ELSE 0) = 1
  /\ pc \in {"detect", "prune", "extract", "done"} =>
       /\ \A n \in 1 .. Len(regions) : ContentBearing(regions[n].start)
       /\ (pc = "detect" /\ currentRegion # null) => ContentBearing(currentRegion.start)
  /\ pc \in {"prune", "extract", "done"} =>
       \A k \in 0 .. length - 1 :
         ContentBearing(k) => Cardinality(RegionsHolding(k)) = 1

\* the result of the detector with two regions, the second of which starts
\* and ends at the last fragment
C25_Witness ==
  /\ pc = "prune"
  /\ Len(regions) = 2
  /\ regions[2].start = length - 1
  /\ regions[2].end = length - 1
  /\ ContentBearing(length - 1)

\* the highest content-bearing index within the region
LastContentIn(region) ==
  CHOOSE k \in region.start .. region.end :
    /\ ContentBearing(k)
    /\ \A j \in k + 1 .. region.end : ~ContentBearing(j)

\* C26: the n-th region returned by detectContentRegions ends window - 1
\* fragments after the last content-bearing fragment in it, or at the last
\* fragment of the sequence if that comes first.
C26_RegionTailLength ==
  pc \in {"prune", "extract", "done"} =>
    \A n \in 1 .. Len(regions) :
      /\ \E k \in regions[n].start .. regions[n].end : ContentBearing(k)
      /\ regions[n].end = Min(LastContentIn(regions[n]) + WindowOf(n) - 1, length - 1)

\* a region that ends within the sequence, 9 fragments after a content-bearing
\* fragment that is not its first
C26_Witness ==
  /\ pc = "prune"
  /\ \E n \in 1 .. Len(regions) :
       /\ regions[n].end < length - 1
       /\ LastContentIn(regions[n]) > regions[n].start
       /\ regions[n].end = LastContentIn(regions[n]) + 9

C28_FallbackKeepsOnlyImages ==
  (pc = "done" /\ length > 0 /\ Len(finalRegions) = 0) =>
    \A n \in 1 .. Len(mainContentBlocks) :
      LET b == Fragment[mainContentBlocks[n].block]
      IN /\ HasText(b.image)
         /\ ~HasText(b.title)
         /\ NumWords(b.content) < 20

\* a sequence without a region of which the fragments with an image are kept
\* and a fragment with short content and a link is dropped
C28_Witness ==
  /\ pc = "done"
  /\ Len(finalRegions) = 0
  /\ mainContentBlocks # <<>>
  /\ \E n \in 1 .. Len(mainContentBlocks) : mainContentBlocks[n].block = "c4i"
  /\ \E k \in 0 .. length - 1 : at(k) = "c4l"
  /\ \A n \in 1 .. Len(mainContentBlocks) : mainContentBlocks[n].block # "c4l"

\* the artifact written last for the locator
LastStored(url) ==
  stored[CHOOSE n \in 1 .. Len(stored) :
           /\ stored[n].url = url
           /\ \A m \in n + 1 .. Len(stored) : stored[m].url # url]

\* C21: a call with ignoreCache false for a locator of which an artifact is
\* stored fetches nothing and returns the artifact stored last for that
\* locator, never one of another locator; a call with ignoreCache true fetches.
C21_CacheReuseUnlessForced ==
  /\ (last.op \in {"hit", "miss"} /\ last.ignoreCache) => last.op = "miss"
  /\ (/\ last.op \in {"hit", "miss"}
      /\ ~last.ignoreCache
      /\ \E n \in 1 .. Len(stored) : stored[n].url = last.url) =>
       /\ last.op = "hit"
       /\ last.value = LastStored(last.url).data
  /\ last.op = "hit" => last.value.url = last.url

\* C22: while two extractions of one locator are fetching, each of them can
\* store and resolve; and when the artifact written last is one of two
\* concurrent extractions of a locator and no extraction of that locator is
\* running, a call with ignoreCache false for it is served that artifact.
C22_LastWriteWins ==
  /\ \A p \in Callers :
       job[p].state = "fetching" =>
         ENABLED (CrawlEnd(p) /\ last'.op = "resolved")
  /\ (/\ last.op \in {"hit", "miss"}
      /\ ~last.ignoreCache
      /\ stored # <<>>
      /\ stored[Len(stored)].url = last.url
      /\ stored[Len(stored)].concurrent
      /\ \A p \in Callers : ~Fetching(job, p, last.url)) =>
       /\ last.op = "hit"
       /\ last.value = stored[Len(stored)].data

\* two concurrent extractions of a locator have stored different artifacts at
\* different times and a later call is served from the cache
C22_Witness ==
  /\ Len(stored) = 2
  /\ stored[1].url = stored[2].url
  /\ stored[1].concurrent
  /\ stored[2].concurrent
  /\ stored[1].name # stored[2].name
  /\ stored[1].data.blocks > stored[2].data.blocks
  /\ last.op = "hit"
  /\ last.url = stored[2].url
  /\ last.value = stored[2].data

\* C29: the step in which the extraction of a caller rejects leaves the files
\* of the directory as they were, so every locator finds the file it found
\* before.
C29_FailedExtractionStoresNothing ==
  [][\A p \in Callers :
       (/\ job[p].state = "fetching"
        /\ job'[p].state = "idle"
        /\ last'.op = "rejected"
        /\ last'.caller = p) =>
         /\ files' = files
         /\ \A url \in CacheLocators :
              findExistingExtractedFile(files', url, FALSE) =
                findExistingExtractedFile(files, url, FALSE)]_vars

\* a forced extraction of a locator with a stored artifact has rejected
C29_Witness ==
  /\ last.op = "rejected"
  /\ last.ignoreCache
  /\ stored # <<>>
  /\ stored[1].url = last.url
  /\ files # {}

\* C30: the value a cache hit returns is the value that the extraction which
\* stored the artifact resolved with.
C30_HitReturnsWhatMissReturned ==
  last.op = "hit" =>
    \E n \in 1 .. Len(stored) :
      /\ stored[n].data = loadExistingData(files, stored[n].name)
      /\ stored[n].name = findExistingExtractedFile(files, last.url, FALSE)
      /\ last.value = stored[n].returned

====
